---- MODULE Spec2Model ----
(***************************************************************************)
(* Model of the Cementra mock plant API (src/backend/app.py): the          *)
(* process-wide PlantDataStore created at import time and the eleven       *)
(* Flask request handlers that read it.                                    *)
(*                                                                         *)
(* Conventions                                                             *)
(*  - a JSON object / Python dict is a record, a list is a sequence;       *)
(*  - datetime values are whole hours since an epoch (t), so that          *)
(*    datetime.now().hour is t % 24; minutes and seconds are always 00;    *)
(*  - Python floats are fixed-point numbers in hundredths (87.3 is 8730);  *)
(*    the rounded percentages of the worker statistics are in tenths;      *)
(*  - a response is [route, code, kind, body]; body is the record of the   *)
(*    top-level fields of the JSON document (or the page for HTML).        *)
(*  - the keys of a JSON object are unordered, and so are the fields of a  *)
(*    record: every record is written with its fields in the order of      *)
(*    TLC's normal form, so that a record is never reordered once built.   *)
(***************************************************************************)
EXTENDS Integers, Sequences, FiniteSets, TLC

VARIABLES
    workers,             \* plant_data.workers
    safety_violations,   \* plant_data.safety_violations
    production_metrics,  \* plant_data.production_metrics
    schedules,           \* plant_data.schedules
    asset,               \* what open('frontend/index.html') finds: "absent" or the text
    req,                 \* history: the last request served and the inputs it read
    resp,                \* response to the last request served (sequential server)
    threads,             \* per-thread handler state (threaded server)
    startup,             \* history: the seed the store was generated from at process start
    served404,           \* history: the root route has answered 404 in this run
    setup                \* how the server process was launched: [pc, cwd, files]

vars == <<workers, safety_violations, production_metrics, schedules, asset,
          req, resp, threads, startup, served404, setup>>

store == <<workers, safety_violations, production_metrics, schedules>>

-----------------------------------------------------------------------------
(* Bounds of the exploration *)

MaxSeed == 3        \* seeds of the startup random stream: 0..MaxSeed
RandRes == 100      \* random.random() is k/RandRes, k in 0..RandRes-1
MaxMsgLen == 1      \* longest chat message, in characters
TimeStride == 12    \* the sequential server samples the clock every TimeStride hours
MaxRoster == 12     \* largest roster handed to the worker-safety computation
NumThreads == 2     \* concurrently running request handlers

(* Program constants *)

NumWorkers == 50
SliceLen == 10
BaseProductionRate == 2450
BaseTemperature == 1480
RateDelta == 50
TempDelta == 20
HoursPerDay == 24
MorningStart == 6
AfternoonStart == 14
NightStart == 22

-----------------------------------------------------------------------------
(* Python / library primitives *)

Min(a, b) == IF a < b THEN a ELSE b

\* round-half-to-even of n/d, d > 0 (Python's round on an exactly known quotient)
RoundHalfEven(n, d) ==
    LET q == n \div d
        r == n % d
    IN  IF 2 * r < d THEN q
        ELSE IF 2 * r > d THEN q + 1
        ELSE IF q % 2 = 0 THEN q ELSE q + 1

\* seq[:k]
Take(s, k) == SubSeq(s, 1, Min(k, Len(s)))

\* len([x for x in s if P(x)])
CountIf(s, P(_)) == Cardinality({i \in 1..Len(s) : P(s[i])})

\* random.randint(a, b): an integer of a..b, both ends included.
\* The exploration draws the two ends of the range.
randint(a, b) == {a, b}

\* random.random(): k/RandRes with 0 <= k < RandRes (the numerators k).
\* The exploration draws the smallest and the largest value.
random_random == {0, RandRes - 1}

\* random.uniform(a, b) is a + (b-a) * random() in floating point: the exact
\* value rounded to the nearest float.  Here a, b and the result are in
\* hundredths and the result is rounded to the nearest hundredth, random()
\* having the resolution 1/RandRes of that grid (as the float grid below 1
\* has the resolution 2^-53 of random()).  For the largest draw the exact
\* value is less than half a grid step below b and rounds to b.
uniform(a, b) == {RoundHalfEven(a * RandRes + (b - a) * k, RandRes) : k \in random_random}

\* dict.get(key, default)
dict_get(d, key, default) == IF key \in DOMAIN d THEN d[key] ELSE default

Pad2(n) == IF n < 10 THEN "0" \o ToString(n) ELSE ToString(n)

\* datetime.hour
hour(t) == t % HoursPerDay

\* datetime.isoformat()
isoformat(t) == "D" \o ToString(t \div HoursPerDay) \o "T" \o Pad2(hour(t)) \o ":00:00"

\* datetime.strftime('%H:%M')
strftime_HM(t) == Pad2(hour(t)) \o ":00"

\* datetime.strftime("%Y%m%d_%H%M%S")
strftime_stamp(t) == "D" \o ToString(t \div HoursPerDay) \o "_" \o Pad2(hour(t)) \o "0000"

Times == HoursPerDay .. (2 * HoursPerDay - 1)      \* one full day of clock readings
SampleTimes == {t \in Times : (t - HoursPerDay) % TimeStride = 0}

-----------------------------------------------------------------------------
(* PlantDataStore *)

statuses == <<"Safe", "PPE Missing", "Training Required", "Off Duty">>
zones == <<"Zone A", "Zone B", "Zone C", "Zone D">>

Seeds == 0..MaxSeed

\* The i-th group of draws of the startup random stream seeded with seed,
\* as a number of 0..7 (a small congruential stand-in for `random`).
Draw(seed, i) == (seed * i + seed \div 8) % 8

MockWorker(seed, i) ==
    LET x == Draw(seed, i)
    IN  [ id |-> "W" \o ToString(1000 + i),
          name |-> "Worker " \o ToString(i),
          age |-> 22 + 5 * x,
          zone |-> zones[(x % 4) + 1],
          status |-> statuses[(x % 4) + 1],
          ppe_compliance |-> (x \div 4 = 0),
          certification_valid |-> TRUE,
          last_safety_training |-> 1 + 12 * x ]     \* days before process start

\* the loop body of generate_mock_workers run for i = 1..n
MockWorkers(seed, n) == [i \in 1..n |-> MockWorker(seed, i)]

generate_mock_workers(seed) == MockWorkers(seed, NumWorkers)

generate_mock_schedules ==
    << [ shift_id |-> "A001", shift_name |-> "Morning Shift",
         start_time |-> "06:00", end_time |-> "14:00", workers_assigned |-> 25,
         supervisor |-> "John Supervisor",
         tasks |-> <<"Production", "Quality Control", "Maintenance">> ],
       [ shift_id |-> "B001", shift_name |-> "Afternoon Shift",
         start_time |-> "14:00", end_time |-> "22:00", workers_assigned |-> 22,
         supervisor |-> "Mary Manager",
         tasks |-> <<"Production", "Equipment Check", "Safety Audit">> ],
       [ shift_id |-> "C001", shift_name |-> "Night Shift",
         start_time |-> "22:00", end_time |-> "06:00", workers_assigned |-> 15,
         supervisor |-> "Bob Controller",
         tasks |-> <<"Maintenance", "Deep Cleaning", "System Check">> ] >>

InitialMetrics ==
    [ production_rate |-> BaseProductionRate,
      efficiency |-> 8730,
      temperature |-> BaseTemperature,
      energy_consumption |-> 8520,
      co2_emissions |-> -12 ]

NoResp == [route |-> "none", code |-> 0, kind |-> "none", body |-> [none |-> TRUE]]

NoObject == [unused |-> TRUE]

\* A request body is absent (no JSON content type), malformed (JSON content
\* type, text that does not parse), a JSON document that is not an object
\* (null, a list, a string, a number), or a JSON object obj.
Body(kind, obj) == [kind |-> kind, obj |-> obj]
NoBody == Body("absent", NoObject)

\* a request: its route, its body, and for the root route the file it found
Request(route, body, file) == [route |-> route, body |-> body, file |-> file]
Get(route) == Request(route, NoBody, "unread")
Post(route, body) == Request(route, body, "unread")
NoReq == Request("none", NoBody, "unread")

NoLocal == [none |-> TRUE]
Idle == [pc |-> "idle", loc |-> NoLocal, out |-> NoResp]

AssetTexts == {"<html>CementAI</html>"}

\* the server was started by hand (python app.py) in a directory of the
\* operator's choosing: asset stands for what the lookup finds there
ByHand == [pc |-> "serving", cwd |-> "unmanaged", files |-> {}]

\* plant_data = PlantDataStore() holding the roster ws, at process start
InitStore(seed, ws) ==
    /\ workers = ws
    /\ safety_violations = << >>
    /\ production_metrics = InitialMetrics
    /\ schedules = generate_mock_schedules
    /\ asset \in {"absent"} \cup AssetTexts
    /\ req = NoReq
    /\ resp = NoResp
    /\ threads = [t \in 1..NumThreads |-> Idle]
    /\ startup = seed
    /\ served404 = FALSE

Init ==
    /\ \E seed \in Seeds : InitStore(seed, generate_mock_workers(seed))
    /\ setup = ByHand

-----------------------------------------------------------------------------
(* Responses *)

\* return jsonify(body)
Ok(route, body) == [route |-> route, code |-> 200, kind |-> "json", body |-> body]

\* the framework's error response for an aborted request or an uncaught exception
Failure(route, code) ==
    [route |-> route, code |-> code, kind |-> "html", body |-> [page |-> "error"]]

\* record the request q and the response r of a handler that touches nothing else
Reply(q, r) ==
    /\ req' = q
    /\ resp' = r
    /\ UNCHANGED <<store, asset, threads, startup, served404, setup>>

-----------------------------------------------------------------------------
(* GET / *)

\* FileNotFoundError not caught: the framework answers 500
index_response_uncaught(a) ==
    IF a = "absent"
    THEN Failure("/", 500)
    ELSE [route |-> "/", code |-> 200, kind |-> "html", body |-> [page |-> a]]

index_response(a) ==
    IF a = "absent"
    THEN [route |-> "/", code |-> 404, kind |-> "json",
          body |-> [error |-> "Frontend not found. Please ensure index.html exists in frontend folder"]]
    ELSE [route |-> "/", code |-> 200, kind |-> "html", body |-> [page |-> a]]

index ==
    /\ req' = Request("/", NoBody, asset)
    /\ resp' = index_response(asset)
    /\ served404' = (served404 \/ asset = "absent")
    /\ UNCHANGED <<store, asset, threads, startup, setup>>

(* GET /api/health *)

\* the payload without its timestamp
health_check_response_unstamped(t) ==
    Ok("/api/health",
       [ status |-> "healthy",
         version |-> "1.0.0",
         services |-> [ai_engine |-> "online", safety_monitor |-> "online",
                       database |-> "online"] ])

health_check_response(t) ==
    Ok("/api/health",
       [ status |-> "healthy",
         version |-> "1.0.0",
         services |-> [ai_engine |-> "online", safety_monitor |-> "online",
                       database |-> "online"],
         timestamp |-> isoformat(t) ])

health_check == \E t \in SampleTimes : Reply(Get("/api/health"), health_check_response(t))

(* GET /api/operations/metrics *)

\* what the name `metrics` is bound to by plant_data.production_metrics.copy():
\* "copy" is a fresh dict, "store" would be the stored dict itself
\* .copy() left out: the handler perturbs the stored dict
metrics_ref_alias == "store"

metrics_ref == "copy"

\* the temperature perturbed by the production-rate delta
perturb_wrong_delta(m, d1, d2, d3) ==
    [m EXCEPT !.production_rate = @ + d1, !.efficiency = @ + d2, !.temperature = @ + d1]

\* the three += statements applied to the dict m
perturb(m, d1, d2, d3) ==
    [m EXCEPT !.production_rate = @ + d1, !.efficiency = @ + d2, !.temperature = @ + d3]

metrics_response(metrics, t) ==
    Ok("/api/operations/metrics",
       [status |-> "success", timestamp |-> isoformat(t), data |-> metrics])

get_operations_metrics ==
    \E d1 \in randint(-RateDelta, RateDelta), d2 \in uniform(-200, 200),
       d3 \in randint(-TempDelta, TempDelta), t \in SampleTimes :
        LET metrics == perturb(production_metrics, d1, d2, d3)
        IN  /\ req' = Get("/api/operations/metrics")
            /\ resp' = metrics_response(metrics, t)
            /\ production_metrics' =
                   IF metrics_ref = "store" THEN metrics ELSE production_metrics
            /\ UNCHANGED <<workers, safety_violations, schedules, asset, threads,
                           startup, served404, setup>>

(* GET /api/safety/workers *)

total_workers(ws) == Len(ws)
safe_workers(ws) == CountIf(ws, LAMBDA w : w.status = "Safe")
ppe_compliant(ws) == CountIf(ws, LAMBDA w : w.ppe_compliance)
\* every worker who is not "Safe" counted as a violation
violations_not_safe(ws) == CountIf(ws, LAMBDA w : w.status # "Safe")

violations(ws) == CountIf(ws, LAMBDA w : w.status \in {"PPE Missing", "Training Required"})

\* the slice left out: the whole roster is returned
displayed_workers_unsliced(ws) == ws

\* workers[:10]
displayed_workers(ws) == Take(ws, SliceLen)

\* round((k / n) * 100, 1), in tenths of a percent
percentage(k, n) == RoundHalfEven(1000 * k, n)

\* the 'statistics' object, from the four locals
statistics_of(total, safe, ppe, viol) ==
    [ total_workers |-> total,
      safe_workers |-> safe,
      ppe_compliance_rate |-> IF total = 0 THEN 0 ELSE percentage(ppe, total),
      violations_today |-> viol,
      safety_score |-> IF total = 0 THEN 0 ELSE percentage(safe, total) ]

statistics(ws) ==
    statistics_of(total_workers(ws), safe_workers(ws), ppe_compliant(ws), violations(ws))

\* the return statement, given the values of the locals;
\* the division by total_workers raises ZeroDivisionError when it is 0
safety_reply(shown, stats, t) ==
    IF stats.total_workers = 0
    THEN Failure("/api/safety/workers", 500)
    ELSE Ok("/api/safety/workers",
            [ status |-> "success",
              timestamp |-> isoformat(t),
              data |-> [workers |-> shown, statistics |-> stats] ])

worker_safety_response(ws, t) == safety_reply(displayed_workers(ws), statistics(ws), t)

\* what two worker-safety responses are compared on
SafetyDigest(r) ==
    IF r.code = 200
    THEN [ total_workers |-> r.body.data.statistics.total_workers,
           ids |-> [i \in 1..Len(r.body.data.workers) |-> r.body.data.workers[i].id] ]
    ELSE [ total_workers |-> -1, ids |-> << >> ]

get_worker_safety_status ==
    \E t \in SampleTimes : Reply(Get("/api/safety/workers"), worker_safety_response(workers, t))

(* GET /api/safety/violations *)

safety_violations_response(t) ==
    Ok("/api/safety/violations",
       [ status |-> "success",
         timestamp |-> isoformat(t),
         data |-> << [ id |-> "V001", timestamp |-> isoformat(t - 2), worker_id |-> "W1047",
                       worker_name |-> "Ahmed Hassan", violation_type |-> "PPE Missing",
                       location |-> "Zone B", severity |-> "Medium",
                       resolved |-> FALSE ],
                     [ id |-> "V002", timestamp |-> isoformat(t - 5), worker_id |-> "W1023",
                       worker_name |-> "Lisa Chen", violation_type |-> "Unauthorized Zone Access",
                       location |-> "Zone D", severity |-> "High",
                       resolved |-> TRUE ] >> ])

get_safety_violations == \E t \in SampleTimes : Reply(Get("/api/safety/violations"), safety_violations_response(t))

(* GET /api/schedule/current *)

\* the bands closed at their upper end
current_shift_closed(h) ==
    IF MorningStart <= h /\ h <= AfternoonStart THEN "Morning Shift"
    ELSE IF AfternoonStart <= h /\ h <= NightStart THEN "Afternoon Shift"
    ELSE "Night Shift"

\* the if / elif / else over current_time = datetime.now().hour
current_shift(h) ==
    IF MorningStart <= h /\ h < AfternoonStart THEN "Morning Shift"
    ELSE IF AfternoonStart <= h /\ h < NightStart THEN "Afternoon Shift"
    ELSE "Night Shift"

\* the return statement: h is current_time, t the clock when the reply is built
schedule_reply(shifts, h, t) ==
    Ok("/api/schedule/current",
       [ status |-> "success",
         timestamp |-> isoformat(t),
         data |-> [ schedules |-> shifts,
                    current_shift |-> current_shift(h),
                    current_time |-> strftime_HM(t) ] ])

schedule_response(shifts, t) == schedule_reply(shifts, hour(t), t)

\* the handler, reading the clock in ts
get_current_schedule(ts) == \E t \in ts : Reply(Get("/api/schedule/current"), schedule_response(schedules, t))

(* POST /api/schedule/optimize *)

optimize_response(id, gain, savings, points, t) ==
    Ok("/api/schedule/optimize",
       [ status |-> "success",
         timestamp |-> isoformat(t),
         data |-> [ status |-> "completed",
                    optimization_id |-> "OPT_" \o ToString(id),
                    improvements |->
                        [ efficiency_gain |-> ToString(gain) \o "%",
                          energy_savings |-> "₹" \o ToString(savings) \o "/day",
                          safety_score_improvement |-> ToString(points) \o " points" ],
                    recommended_changes |->
                        << "Redistribute workers from Zone A to Zone C during peak hours",
                           "Schedule maintenance during low-production periods",
                           "Implement staggered break times to maintain productivity" >> ],
         message |-> "Schedule optimization completed" ])

optimize_schedule ==
    \E id \in randint(1000, 9999), gain \in randint(5, 15),
       savings \in randint(10000, 50000), points \in randint(2, 8), t \in SampleTimes :
        Reply(Post("/api/schedule/optimize", NoBody), optimize_response(id, gain, savings, points, t))

(* GET /api/compliance/status *)

compliance_response(t) ==
    Ok("/api/compliance/status",
       [ status |-> "success",
         timestamp |-> isoformat(t),
         data |-> [ age_verification |->
                        [ status |-> "compliant", total_workers |-> 50,
                          verified_workers |-> 50, compliance_rate |-> 100 ],
                    safety_training |->
                        [ status |-> "mostly_compliant", total_workers |-> 50,
                          compliance_rate |-> 96, completed_training |-> 48 ],
                    environmental |->
                        [ status |-> "compliant", compliance_rate |-> 120,
                          emissions_target |-> -10, current_emissions |-> -12 ],
                    labor_standards |->
                        [ status |-> "compliant", working_hours_violations |-> 0,
                          overtime_compliance |-> 100, break_time_compliance |-> 98 ] ] ])

get_compliance_status == \E t \in SampleTimes : Reply(Get("/api/compliance/status"), compliance_response(t))

-----------------------------------------------------------------------------
(* Request bodies of the POST routes and flask's request.json *)

BadBodies == {Body("absent", NoObject), Body("malformed", NoObject), Body("nonobject", NoObject)}

\* request.json: the parsed document, or the request aborted by the framework.
\* A body without the JSON content type aborts with 415 in Flask >= 2.1 and
\* evaluates to None before that; text that does not parse aborts with 400.
request_json(body) ==
    CASE body.kind = "object" -> {[code |-> 200, tag |-> "dict", value |-> body.obj]}
      [] body.kind = "nonobject" -> {[code |-> 500, tag |-> "nondict", value |-> NoObject]}
      [] body.kind = "malformed" -> {[code |-> 400, tag |-> "abort", value |-> NoObject]}
      [] body.kind = "absent" -> {[code |-> 415, tag |-> "abort", value |-> NoObject],
                                  [code |-> 500, tag |-> "nondict", value |-> NoObject]}

\* request.json.get(key, default) can be evaluated: request.json is a dict.
\* Otherwise the request ends with j.code: the abort's status, or 500 for the
\* AttributeError raised by .get on a value that is not a dict.
HasDict(j) == j.tag = "dict"

(* POST /api/ai/chat *)

\* text is a sequence of pieces; a message is a sequence of characters
MsgChars == {"k"}
Messages == UNION {[1..n -> MsgChars] : n \in 0..MaxMsgLen}

ChatBodies ==
    BadBodies \cup {Body("object", [other |-> "x"])}
              \cup {Body("object", [message |-> m]) : m \in Messages}

\* the six strings without the message interpolated
ai_responses_literal(m) ==
    << <<"Based on your query about '{user_message}', I recommend optimizing kiln temperature to 1470°C for better efficiency.">>,
       <<"Regarding '{user_message}', all safety protocols are currently being followed. Worker compliance is at 96%.">>,
       <<"For '{user_message}', I suggest scheduling preventive maintenance during the next low-production period.">>,
       <<"Analyzing '{user_message}': Energy consumption can be reduced by 8% through parameter adjustments.">>,
       <<"About '{user_message}': Current production rate is optimal. Consider adjusting only if demand increases.">>,
       <<"Concerning '{user_message}': All environmental targets are being met. CO2 emissions are 12% below target.">> >>

\* the six f-strings
ai_responses(m) ==
    << <<"Based on your query about '">> \o m \o
          <<"', I recommend optimizing kiln temperature to 1470°C for better efficiency.">>,
       <<"Regarding '">> \o m \o
          <<"', all safety protocols are currently being followed. Worker compliance is at 96%.">>,
       <<"For '">> \o m \o
          <<"', I suggest scheduling preventive maintenance during the next low-production period.">>,
       <<"Analyzing '">> \o m \o
          <<"': Energy consumption can be reduced by 8% through parameter adjustments.">>,
       <<"About '">> \o m \o
          <<"': Current production rate is optimal. Consider adjusting only if demand increases.">>,
       <<"Concerning '">> \o m \o
          <<"': All environmental targets are being met. CO2 emissions are 12% below target.">> >>

suggestions ==
    << "Would you like me to implement this recommendation?",
       "Should I schedule this change for the next maintenance window?",
       "Would you like a detailed analysis report?" >>

ConfidenceLow == 85
ConfidenceHigh == 98

\* j: request.json, i: the template random.choice picks, c: the confidence drawn
ai_chat_response(j, i, c, t) ==
    IF ~HasDict(j) THEN Failure("/api/ai/chat", j.code)
    ELSE LET user_message == dict_get(j.value, "message", << >>)
         IN  Ok("/api/ai/chat",
                [ status |-> "success",
                  timestamp |-> isoformat(t),
                  data |-> [ suggestions |-> suggestions,
                             user_message |-> user_message,
                             ai_response |-> ai_responses(user_message)[i],
                             confidence |-> c ] ])

ai_chat ==
    \E body \in ChatBodies, t \in SampleTimes :
      \E j \in request_json(body) :
        IF HasDict(j)
        THEN \E i \in 1..6, c \in uniform(ConfidenceLow, ConfidenceHigh) :
                 Reply(Post("/api/ai/chat", body), ai_chat_response(j, i, c, t))
        ELSE Reply(Post("/api/ai/chat", body), ai_chat_response(j, 1, ConfidenceLow, t))

(* POST /api/reports/safety *)

ReportBodies ==
    BadBodies \cup {Body("object", [other |-> "x"])}
              \cup {Body("object", [period |-> p]) : p \in {"weekly"}}

safety_report_response(j, incidents, ppe, training, score, t) ==
    IF ~HasDict(j) THEN Failure("/api/reports/safety", j.code)
    ELSE LET report_id == "RPT_" \o strftime_stamp(t)
         IN  Ok("/api/reports/safety",
                [ status |-> "success",
                  data |-> [ period |-> dict_get(j.value, "period", "daily"),
                             report_id |-> report_id,
                             summary |-> [ safety_score |-> score,
                                           total_incidents |-> incidents,
                                           ppe_compliance_avg |-> ppe,
                                           safety_training_completion |-> training ],
                             recommendations |->
                                 << "Increase safety training frequency in Zone B",
                                    "Install additional PPE monitoring cameras",
                                    "Implement reward system for safety compliance" >>,
                             generated_at |-> isoformat(t) ],
                  message |-> "Safety report generated successfully",
                  download_url |-> "/api/reports/download/" \o report_id ])

generate_safety_report ==
    \E body \in ReportBodies, t \in SampleTimes :
      \E j \in request_json(body) :
        IF HasDict(j)
        THEN \E incidents \in randint(0, 3), ppe \in uniform(9400, 9800),
                training \in uniform(9500, 10000), score \in uniform(9200, 9800) :
                 Reply(Post("/api/reports/safety", body), safety_report_response(j, incidents, ppe, training, score, t))
        ELSE Reply(Post("/api/reports/safety", body), safety_report_response(j, 0, 9400, 9500, 9200, t))

(* POST /api/emergency/stop *)

StopBodies ==
    BadBodies \cup {Body("object", o) :
                      o \in { [other |-> "x"], [user_id |-> "op7"], [reason |-> "fire"],
                              [user_id |-> "op7", reason |-> "fire"] }}

emergency_stop_response(j, t) ==
    IF ~HasDict(j) THEN Failure("/api/emergency/stop", j.code)
    ELSE Ok("/api/emergency/stop",
            [ status |-> "success",
              timestamp |-> isoformat(t),
              data |-> [ status |-> "emergency_stop_active",
                         reason |-> dict_get(j.value, "reason", "Manual emergency stop"),
                         stop_id |-> "ESTOP_" \o strftime_stamp(t),
                         initiated_by |-> dict_get(j.value, "user_id", "system"),
                         affected_systems |->
                             << "Production Line 1", "Production Line 2",
                                "Kiln Operations", "Conveyor Systems" >>,
                         response_time |-> "< 5 seconds" ],
              message |-> "Emergency stop activated successfully" ])

emergency_stop ==
    \E body \in StopBodies, t \in SampleTimes :
      \E j \in request_json(body) : Reply(Post("/api/emergency/stop", body), emergency_stop_response(j, t))

-----------------------------------------------------------------------------
(* The environment: the file frontend/index.html is written or removed *)

WriteAsset ==
    /\ asset = "absent"
    /\ asset' \in AssetTexts
    /\ UNCHANGED <<store, req, resp, threads, startup, served404, setup>>

RemoveAsset ==
    /\ asset # "absent"
    /\ asset' = "absent"
    /\ UNCHANGED <<store, req, resp, threads, startup, served404, setup>>

-----------------------------------------------------------------------------
(* The server handling one request at a time *)

Next ==
    \/ index
    \/ health_check
    \/ get_operations_metrics
    \/ get_worker_safety_status
    \/ get_safety_violations
    \/ get_current_schedule(SampleTimes)
    \/ optimize_schedule
    \/ get_compliance_status
    \/ ai_chat
    \/ generate_safety_report
    \/ emergency_stop
    \/ WriteAsset
    \/ RemoveAsset

Spec == Init /\ [][Next]_vars

-----------------------------------------------------------------------------
(* The schedule route read at every hour of the day *)

NextClock == get_current_schedule(Times)

SpecClock == Init /\ [][NextClock]_vars

-----------------------------------------------------------------------------
(* The worker-safety computation over rosters of every size up to MaxRoster *)

InitRoster ==
    /\ \E seed \in Seeds, n \in 0..MaxRoster : InitStore(seed, MockWorkers(seed, n))
    /\ setup = ByHand

NextRoster == get_worker_safety_status

SpecRoster == InitRoster /\ [][NextRoster]_vars

-----------------------------------------------------------------------------
(* The threaded server (app.run(threaded=True)): every request runs its       *)
(* handler on a thread of its own, statement by statement, interleaved with   *)
(* the other threads.  loc holds the handler's local names, out its response. *)

ThreadIds == 1..NumThreads

FirstPc == [workers |-> "w_total", metrics |-> "m_copy", schedule |-> "s_hour"]

Goto(t, pc, loc) == threads' = [threads EXCEPT ![t] = [pc |-> pc, loc |-> loc, out |-> NoResp]]

Finish(t, r) == threads' = [threads EXCEPT ![t] = [pc |-> "idle", loc |-> NoLocal, out |-> r]]

\* a request arrives and is dispatched to thread t
Accept(t, handler) ==
    /\ threads[t].pc = "idle"
    /\ Goto(t, FirstPc[handler], NoLocal)
    /\ UNCHANGED <<store, asset, req, resp, startup, served404, setup>>

\* metrics = plant_data.production_metrics.copy()
m_copy(t) ==
    /\ threads[t].pc = "m_copy"
    /\ Goto(t, "m_rate", [ref |-> metrics_ref, dict |-> production_metrics])
    /\ UNCHANGED <<store, asset, req, resp, startup, served404, setup>>

\* the dict the local name `metrics` refers to
Deref(loc) == IF loc.ref = "store" THEN production_metrics ELSE loc.dict

\* metrics[field] += d, then continue at pc
AddTo(t, field, d, pc) ==
    LET loc == threads[t].loc
        new == [Deref(loc) EXCEPT ![field] = @ + d]
    IN  IF loc.ref = "store"
        THEN /\ production_metrics' = new
             /\ Goto(t, pc, loc)
             /\ UNCHANGED <<workers, safety_violations, schedules, asset, req, resp,
                            startup, served404, setup>>
        ELSE /\ Goto(t, pc, [loc EXCEPT !.dict = new])
             /\ UNCHANGED <<store, asset, req, resp, startup, served404, setup>>

m_rate(t) ==
    /\ threads[t].pc = "m_rate"
    /\ \E d \in randint(-RateDelta, RateDelta) : AddTo(t, "production_rate", d, "m_eff")

m_eff(t) ==
    /\ threads[t].pc = "m_eff"
    /\ \E d \in uniform(-200, 200) : AddTo(t, "efficiency", d, "m_temp")

m_temp(t) ==
    /\ threads[t].pc = "m_temp"
    /\ \E d \in randint(-TempDelta, TempDelta) : AddTo(t, "temperature", d, "m_reply")

m_reply(t) ==
    /\ threads[t].pc = "m_reply"
    /\ \E now \in SampleTimes : Finish(t, metrics_response(Deref(threads[t].loc), now))
    /\ UNCHANGED <<store, asset, req, resp, startup, served404, setup>>

\* workers = plant_data.workers is a reference to the shared list: every
\* statement below reads the list as it is when the statement runs
w_total(t) ==
    /\ threads[t].pc = "w_total"
    /\ Goto(t, "w_safe", [total |-> total_workers(workers)])
    /\ UNCHANGED <<store, asset, req, resp, startup, served404, setup>>

w_safe(t) ==
    /\ threads[t].pc = "w_safe"
    /\ Goto(t, "w_ppe", [total |-> threads[t].loc.total, safe |-> safe_workers(workers)])
    /\ UNCHANGED <<store, asset, req, resp, startup, served404, setup>>

w_ppe(t) ==
    /\ threads[t].pc = "w_ppe"
    /\ Goto(t, "w_viol", [total |-> threads[t].loc.total, safe |-> threads[t].loc.safe,
                          ppe |-> ppe_compliant(workers)])
    /\ UNCHANGED <<store, asset, req, resp, startup, served404, setup>>

w_viol(t) ==
    /\ threads[t].pc = "w_viol"
    /\ Goto(t, "w_reply", [total |-> threads[t].loc.total, safe |-> threads[t].loc.safe,
                           ppe |-> threads[t].loc.ppe, viol |-> violations(workers)])
    /\ UNCHANGED <<store, asset, req, resp, startup, served404, setup>>

w_reply(t) ==
    /\ threads[t].pc = "w_reply"
    /\ \E now \in SampleTimes :
         LET loc == threads[t].loc
         IN  Finish(t, safety_reply(displayed_workers(workers),
                                    statistics_of(loc.total, loc.safe, loc.ppe, loc.viol),
                                    now))
    /\ UNCHANGED <<store, asset, req, resp, startup, served404, setup>>

\* current_time = datetime.now().hour
s_hour(t) ==
    /\ threads[t].pc = "s_hour"
    /\ \E now \in SampleTimes : Goto(t, "s_reply", [h |-> hour(now)])
    /\ UNCHANGED <<store, asset, req, resp, startup, served404, setup>>

s_reply(t) ==
    /\ threads[t].pc = "s_reply"
    /\ \E now \in SampleTimes : Finish(t, schedule_reply(schedules, threads[t].loc.h, now))
    /\ UNCHANGED <<store, asset, req, resp, startup, served404, setup>>

NextConc ==
    \E t \in ThreadIds :
        \/ \E handler \in DOMAIN FirstPc : Accept(t, handler)
        \/ m_copy(t)
        \/ m_rate(t)
        \/ m_eff(t)
        \/ m_temp(t)
        \/ m_reply(t)
        \/ w_total(t)
        \/ w_safe(t)
        \/ w_ppe(t)
        \/ w_viol(t)
        \/ w_reply(t)
        \/ s_hour(t)
        \/ s_reply(t)

\* one process, started with the roster of seed 1 and no frontend file
InitConc == InitStore(1, generate_mock_workers(1)) /\ asset = "absent" /\ setup = ByHand

SpecConc == InitConc /\ [][NextConc]_vars

-----------------------------------------------------------------------------
(* The setup script (src/run.py): main() checks the project directory for the *)
(* two required files and the dependencies, run_application() changes into    *)
(* backend/ and starts app.py there.  The file system is the set of files     *)
(* that exist, named by their path from the project directory.                *)

FrontendPath == "frontend/index.html"
BackendPath == "backend/app.py"

Paths == {FrontendPath, BackendPath, "backend/" \o FrontendPath}

\* what each file holds
FileText(path) ==
    IF path = FrontendPath THEN "<html>CementAI</html>"
    ELSE IF path = "backend/" \o FrontendPath THEN "<html>backend copy</html>"
    ELSE "from flask import Flask"

\* a relative path as seen from the working directory cwd
Resolve(cwd, rel) == IF cwd = "project" THEN rel ELSE cwd \o "/" \o rel

\* Path(rel).exists()
path_exists(s, rel) == Resolve(s.cwd, rel) \in s.files

\* open(rel).read(), "absent" standing for FileNotFoundError
open_read(s, rel) ==
    IF path_exists(s, rel) THEN FileText(Resolve(s.cwd, rel)) ELSE "absent"

\* os.chdir('backend') in run_application
chdir_backend(s) == [s EXCEPT !.cwd = "backend"]

\* main(), step 4: both required files must exist, else the quick-start guide
\* is shown and main returns
main_check_files ==
    /\ setup.pc = "main"
    /\ setup' = [setup EXCEPT !.pc =
                    IF path_exists(setup, FrontendPath) /\ path_exists(setup, BackendPath)
                    THEN "deps" ELSE "quit"]
    /\ UNCHANGED <<store, asset, req, resp, threads, startup, served404>>

\* main(), step 5: flask is importable or gets installed, else main returns
main_check_dependencies ==
    /\ setup.pc = "deps"
    /\ \E installed \in BOOLEAN :
          setup' = [setup EXCEPT !.pc = IF installed THEN "run" ELSE "quit"]
    /\ UNCHANGED <<store, asset, req, resp, threads, startup, served404>>

\* run_application(): chdir into backend/ and start app.py, which from then on
\* opens 'frontend/index.html' relative to that directory
run_application ==
    /\ setup.pc = "run"
    /\ IF path_exists(setup, BackendPath)
       THEN /\ setup' = [chdir_backend(setup) EXCEPT !.pc = "serving"]
            /\ asset' = open_read(setup', FrontendPath)
       ELSE /\ setup' = [setup EXCEPT !.pc = "quit"]
            /\ UNCHANGED asset
    /\ UNCHANGED <<store, req, resp, threads, startup, served404>>

\* requests reach the handlers once app.py is running
Serving(handler) == setup.pc = "serving" /\ handler

NextSetup ==
    \/ main_check_files
    \/ main_check_dependencies
    \/ run_application
    \/ Serving(index)
    \/ Serving(health_check)
    \/ Serving(get_worker_safety_status)

\* python run.py in a project directory holding any of the files
InitSetup ==
    /\ \E seed \in Seeds : InitStore(seed, generate_mock_workers(seed))
    /\ asset = "absent"
    /\ \E files \in SUBSET Paths : setup = [pc |-> "main", cwd |-> "project", files |-> files]

SpecSetup == InitSetup /\ [][NextSetup]_vars

-----------------------------------------------------------------------------
(* Properties *)

StartupWorkers == generate_mock_workers(startup)

StoreAsStarted ==
    /\ workers = StartupWorkers
    /\ safety_violations = << >>
    /\ production_metrics = InitialMetrics
    /\ schedules = generate_mock_schedules

PostRoutes == {"/api/ai/chat", "/api/reports/safety", "/api/emergency/stop"}
ApiRoutes ==
    { "/api/health", "/api/operations/metrics", "/api/safety/workers",
      "/api/safety/violations", "/api/schedule/current", "/api/schedule/optimize",
      "/api/compliance/status" } \cup PostRoutes

\* the number of workers of the roster ws that satisfy P
Among(ws, P(_)) == Cardinality({i \in DOMAIN ws : P(ws[i])})

\* C1: after any sequence of requests the stored roster, shift list and metrics
\* baseline are what they were at process start; so every worker-safety
\* response of the run reports the startup roster's size and its first ten
\* worker ids in generation order (any two such responses agree).
C1_StoreNeverWritten ==
    /\ StoreAsStarted
    /\ req.route = "/api/safety/workers" =>
          SafetyDigest(resp) =
              [ total_workers |-> NumWorkers,
                ids |-> [i \in 1..SliceLen |-> StartupWorkers[i].id] ]

\* C1 witness: a worker-safety response served after the root route answered 404
C1_Witness ==
    /\ served404
    /\ req.route = "/api/safety/workers"
    /\ resp.code = 200

\* C2 (as claimed): a POST to the chat, report or emergency-stop route succeeds
\* whatever its body is, a missing field taking its default.
C2_PostNeverFails ==
    req.route \in PostRoutes =>
        /\ resp.code = 200
        /\ req.route = "/api/ai/chat" =>
              resp.body.data.user_message = dict_get(req.body.obj, "message", << >>)
        /\ req.route = "/api/reports/safety" =>
              resp.body.data.period = dict_get(req.body.obj, "period", "daily")
        /\ req.route = "/api/emergency/stop" =>
              /\ resp.body.data.initiated_by = dict_get(req.body.obj, "user_id", "system")
              /\ resp.body.data.reason =
                     dict_get(req.body.obj, "reason", "Manual emergency stop")

IsPercentage(r, k, n) == 2 * (r * n - 1000 * k) \in -n..n

C4_MetricsWithinWindow ==
    req.route = "/api/operations/metrics" =>
        /\ resp.body.data.production_rate \in 2400..2500
        /\ resp.body.data.temperature \in 1460..1500
        /\ resp.body.data.energy_consumption = 8520
        /\ resp.body.data.co2_emissions = -12

\* C4 witness: a metrics response at the top of both windows, after an earlier request
C4_Witness ==
    /\ served404
    /\ req.route = "/api/operations/metrics"
    /\ resp.body.data.production_rate = 2500
    /\ resp.body.data.temperature = 1500

\* C5: current_shift is decided by the hour h of the clock alone: Morning for
\* 6 <= h < 14, Afternoon for 14 <= h < 22, Night otherwise; and the response
\* carries the three shifts.
C5_ShiftBands ==
    req.route = "/api/schedule/current" =>
        /\ Len(resp.body.data.schedules) = 3
        /\ \E h \in 0..23 :
              /\ resp.body.data.current_time = strftime_HM(h)
              /\ (6 <= h /\ h < 14) <=> resp.body.data.current_shift = "Morning Shift"
              /\ (14 <= h /\ h < 22) <=> resp.body.data.current_shift = "Afternoon Shift"
              /\ (h >= 22 \/ h < 6) <=> resp.body.data.current_shift = "Night Shift"

\* C5 witness: the schedule read at 14:00, the first hour of the afternoon band
C5_Witness ==
    /\ req.route = "/api/schedule/current"
    /\ resp.body.data.current_time = "14:00"
    /\ resp.body.data.current_shift = "Afternoon Shift"

\* C6: GET / answers 404 with a JSON error message when frontend/index.html is
\* absent and the file's content when it is present; after a 404 the server
\* still accepts requests.
C6_RootRoute ==
    /\ req.route = "/" =>
          IF req.file = "absent"
          THEN /\ resp.code = 404
               /\ resp.kind = "json"
               /\ DOMAIN resp.body = {"error"}
          ELSE /\ resp.code = 200
               /\ resp.kind = "html"
               /\ resp.body.page = req.file
    /\ served404 => ENABLED index

\* C6 witness: the root route returns the page after it had answered 404
C6_Witness ==
    /\ served404
    /\ req.route = "/"
    /\ resp.code = 200
    /\ resp.body.page \in AssetTexts

\* C7 (as claimed): every response of an /api/ route has the top-level fields
\* status, data and timestamp.
C7_AllApiShaped ==
    req.route \in ApiRoutes => {"status", "data", "timestamp"} \subseteq DOMAIN resp.body

ActionRoutes == {"/api/schedule/optimize", "/api/reports/safety", "/api/emergency/stop"}

\* C7 (amended): every 200 response of an /api/ route has status; all but the
\* health route's have data; all but the safety report's have timestamp, which
\* is a clock reading; the optimize, report and emergency-stop responses have
\* message as well.  A failed POST is answered with an error page that has
\* none of these fields.
C7_ApiShape ==
    req.route \in ApiRoutes =>
        IF resp.code = 200
        THEN /\ "status" \in DOMAIN resp.body
             /\ req.route # "/api/health" <=> "data" \in DOMAIN resp.body
             /\ req.route # "/api/reports/safety" <=> "timestamp" \in DOMAIN resp.body
             /\ "timestamp" \in DOMAIN resp.body =>
                    \E t \in Times : resp.body.timestamp = isoformat(t)
             /\ req.route \in ActionRoutes <=> "message" \in DOMAIN resp.body
        ELSE /\ resp.kind = "html"
             /\ DOMAIN resp.body = {"page"}

\* C7 witness: a safety report was generated: status, message and data, no timestamp
C7_Witness ==
    /\ req.route = "/api/reports/safety"
    /\ resp.code = 200
    /\ "message" \in DOMAIN resp.body

\* C8: the statistics are taken over all 50 workers: total_workers is 50,
\* safe_workers counts status "Safe", violations_today counts "PPE Missing" and
\* "Training Required", the two rates are 100 * count / total, and the workers
\* that are neither safe nor in violation are the "Off Duty" ones.
C8_StatisticsOverRoster ==
    req.route = "/api/safety/workers" =>
        LET stats == resp.body.data.statistics
            safe == Among(workers, LAMBDA w : w.status = "Safe")
            viol == Among(workers, LAMBDA w : w.status \in {"PPE Missing", "Training Required"})
            ppe == Among(workers, LAMBDA w : w.ppe_compliance)
            off == Among(workers, LAMBDA w : w.status = "Off Duty")
        IN  /\ stats.total_workers = 50
            /\ stats.safe_workers = safe
            /\ stats.violations_today = viol
            /\ stats.ppe_compliance_rate * stats.total_workers = 1000 * ppe
            /\ stats.safety_score * stats.total_workers = 1000 * safe
            /\ stats.safe_workers + stats.violations_today <= stats.total_workers
            /\ stats.total_workers - stats.safe_workers - stats.violations_today = off

\* C8 witness: a roster with safe, violating and off-duty workers was reported
C8_Witness ==
    /\ req.route = "/api/safety/workers"
    /\ resp.body.data.statistics.safe_workers > 0
    /\ resp.body.data.statistics.violations_today > 0
    /\ resp.body.data.statistics.safe_workers + resp.body.data.statistics.violations_today
           < resp.body.data.statistics.total_workers

\* text contains the message m as a run of consecutive characters
Contains(text, m) ==
    \E i \in 1..(Len(text) + 1) :
        /\ i + Len(m) - 1 <= Len(text)
        /\ SubSeq(text, i, i + Len(m) - 1) = m

ChatWithMessage ==
    /\ req.route = "/api/ai/chat"
    /\ req.body.kind = "object"
    /\ "message" \in DOMAIN req.body.obj

\* what the chat response owes the message m, apart from the confidence
ChatEcho(m) ==
    /\ resp.code = 200
    /\ resp.body.data.user_message = m
    /\ \E i \in 1..6 : resp.body.data.ai_response = ai_responses(m)[i]
    /\ Contains(resp.body.data.ai_response, m)
    /\ resp.body.data.suggestions = suggestions
    /\ Len(resp.body.data.suggestions) = 3

\* C9 (as claimed): the chat response echoes the message, interpolates it in
\* one of the six templates, and has a confidence in [0.85, 0.98).
C9_ConfidenceHalfOpen ==
    ChatWithMessage =>
        /\ ChatEcho(req.body.obj.message)
        /\ resp.body.data.confidence >= 85
        /\ resp.body.data.confidence < 98

\* C9 (amended): as claimed, but the confidence lies in [0.85, 0.98], the upper
\* end included.
C9_ConfidenceClosed ==
    ChatWithMessage =>
        /\ ChatEcho(req.body.obj.message)
        /\ resp.body.data.confidence >= 85
        /\ resp.body.data.confidence <= 98

\* C9 witness: a one-character message answered with confidence 0.98
C9_Witness ==
    /\ ChatWithMessage
    /\ req.body.obj.message = <<"k">>
    /\ resp.body.data.confidence = 98

\* the responses a handler can give when it runs alone on the startup store
SoloResponses(route) ==
    CASE route = "/api/operations/metrics" ->
            { metrics_response(perturb(InitialMetrics, d1, d2, d3), t) :
                  d1 \in randint(-RateDelta, RateDelta), d2 \in uniform(-200, 200),
                  d3 \in randint(-TempDelta, TempDelta), t \in SampleTimes }
      [] route = "/api/safety/workers" ->
            { worker_safety_response(StartupWorkers, t) : t \in SampleTimes }
      [] route = "/api/schedule/current" ->
            { schedule_reply(generate_mock_schedules, hour(t1), t2) :
                  t1 \in SampleTimes, t2 \in SampleTimes }

\* C10: however the statements of concurrently running handlers interleave, no
\* handler writes the shared roster, shift list or metrics baseline, and every
\* response is one the handler could have given running alone on the startup
\* store.
C10_InterleavingSafe ==
    /\ StoreAsStarted
    /\ \A t \in ThreadIds :
          threads[t].out.route # "none" =>
              threads[t].out \in SoloResponses(threads[t].out.route)

\* C10 witness: a metrics handler has answered while another is between its
\* copy and its reply
C10_Witness ==
    \E t1 \in ThreadIds, t2 \in ThreadIds :
        /\ t1 # t2
        /\ threads[t1].out.route = "/api/operations/metrics"
        /\ threads[t2].pc \in {"m_eff", "m_temp", "m_reply"}

\* C11: once the setup script has found frontend/index.html and
\* backend/app.py and has started the backend, GET / returns the content of
\* that frontend/index.html and not the 404 error.
C11_DashboardAvailable ==
    (setup.pc = "serving" /\ setup.cwd = "backend" /\ req.route = "/") =>
        /\ resp.code = 200
        /\ resp.body.page = FileText(FrontendPath)

====
